---- MODULE Spec2Model ----
(***************************************************************************)
(* Model of the checkpoint digest handler of crates/indexer:               *)
(* TransactionDigestHandler::process, ::batch and ::commit, together with  *)
(* the transaction_digests table the commit statement writes to.           *)
(*                                                                         *)
(* The table is a heap of rows; the uniqueness of tx_digest is not built   *)
(* into its representation: it is whatever the insert statement enforces.  *)
(* A bulk insert is executed row by row, so that two statements running on *)
(* separate connections interleave at row granularity, as they do in the   *)
(* store.  A row written by a statement that has not finished yet blocks   *)
(* another statement that wants to write the same key.                     *)
(***************************************************************************)
EXTENDS Integers, Sequences, FiniteSets

VARIABLES
    store,      \* the transaction_digests table: a sequence of rows
    batch,      \* batch[c]: the in-memory Vec<StoredTransactionDigest> of owner c
    processed,  \* output of process() not yet handed to batch(): <<>> or <<[checkpoint, values]>>
    cur,        \* cur[c]: id of the commit call owner c is executing, 0 when none
    pos,        \* pos[c]: number of rows of batch[c] the running statement has handled
    inserted,   \* inserted[c]: rows the running statement of c has inserted so far
    calls,      \* calls[x]: who made commit call x, how its statement ended, what it returned
    ret,        \* ret[c]: what the last commit call of c returned
    acked,      \* digests of the batches whose commit returned Ok
    journal,    \* journal[x]: the batch call x was given and the table when it was called
    owners,     \* the batch owners that are running (fixed by Init)
    feed,       \* the sequence numbers of the checkpoints the pipeline delivers (fixed by Init)
    work        \* work[w]: the invocation of process() worker w is in: <<>> or <<its locals>>

vars == <<store, batch, processed, cur, pos, inserted, calls, ret, acked, journal, owners, feed, work>>

----------------------------------------------------------------------------
(* Bounds of the model *)

\* width, in bits, of the scaled-down u64 / i64 pair
Bits == 3
\* longest transaction list of a checkpoint
MaxTx == 2
\* longest batch an owner accumulates
MaxBatch == 2
\* number of commit calls in a behaviour; the pipeline delivers nothing more
\* once the last of them has been made
MaxCalls == 2

Committers == {1, 2}

\* the pipeline's tasks that call process()
Workers == {1, 2}

\* the transactions the pipeline can deliver, by their digest
TxDigests == {1, 2, 3}

\* sequence numbers a checkpoint summary carries (unsigned, Bits wide)
SeqNums == {1, 2^Bits - 1}

RECURSIVE SeqsUpTo(_, _)
SeqsUpTo(S, n) ==
    IF n = 0 THEN {<<>>}
    ELSE LET shorter == SeqsUpTo(S, n - 1)
         IN  shorter \cup {Append(s, e) : s \in {t \in shorter : Len(t) = n - 1}, e \in S}

Transactions == [transaction : [digest : TxDigests]]

CheckpointData ==
    [checkpoint_summary : [sequence_number : SeqNums],
     transactions : SeqsUpTo(Transactions, MaxTx)]

----------------------------------------------------------------------------
(* process *)

\* TransactionDigest::to_string: an injective rendering of the digest
ToString(d) == CASE d = 1 -> "a1" [] d = 2 -> "b2" [] d = 3 -> "c3"

\* `as i64` on a u64: the two's complement reinterpretation
AsI64(u) == IF u >= 2^(Bits - 1) THEN u - 2^Bits ELSE u

StoredTransactionDigest(d, s) == [tx_digest |-> d, checkpoint_sequence_number |-> s]

\* a faulty variant of process that drops repeated digests
RECURSIVE DedupRecords(_)
DedupRecords(s) ==
    IF s = <<>> THEN <<>>
    ELSE LET front == DedupRecords(SubSeq(s, 1, Len(s) - 1))
             last  == s[Len(s)]
         IN  IF \E i \in DOMAIN front : front[i].tx_digest = last.tx_digest
             THEN front ELSE Append(front, last)

ProcessDedup(checkpoint) ==
    LET checkpoint_seq == AsI64(checkpoint.checkpoint_summary.sequence_number)
    IN  DedupRecords([i \in 1..Len(checkpoint.transactions) |->
            StoredTransactionDigest(ToString(checkpoint.transactions[i].transaction.digest),
                                    checkpoint_seq)])

Process(checkpoint) ==
    LET checkpoint_seq == AsI64(checkpoint.checkpoint_summary.sequence_number)
    IN  [i \in 1..Len(checkpoint.transactions) |->
            StoredTransactionDigest(ToString(checkpoint.transactions[i].transaction.digest),
                                    checkpoint_seq)]

----------------------------------------------------------------------------
(* batch *)

\* a faulty variant that leaves out the digests the batch already holds
BatchDedup(b, values) ==
    LET Fresh(r) == r.tx_digest \notin {b[i].tx_digest : i \in DOMAIN b}
    IN  b \o SelectSeq(values, Fresh)

Batch(b, values) == b \o values

----------------------------------------------------------------------------
(* commit: INSERT INTO transaction_digests VALUES batch                    *)
(*         ON CONFLICT (tx_digest) DO NOTHING                              *)

Row(r, x) == [tx_digest |-> r.tx_digest,
              checkpoint_sequence_number |-> r.checkpoint_sequence_number,
              xid |-> x]

Record(row) == StoredTransactionDigest(row.tx_digest, row.checkpoint_sequence_number)

\* the table as the schema sees it: tx_digest and checkpoint_sequence_number
Table(st) == [i \in 1..Len(st) |-> Record(st[i])]

DigestsOf(rows) == {rows[i].tx_digest : i \in DOMAIN rows}

Conflicts(st, r) == \E i \in DOMAIN st : st[i].tx_digest = r.tx_digest

\* faulty variants of the conflict clause: none at all, DO UPDATE, and the
\* wrong conflict target
InsertNoConflictClause(st, r, x) == Append(st, Row(r, x))

InsertOnConflictDoUpdate(st, r, x) ==
    IF Conflicts(st, r)
    THEN [i \in DOMAIN st |-> IF st[i].tx_digest = r.tx_digest THEN Row(r, x) ELSE st[i]]
    ELSE Append(st, Row(r, x))

InsertOnConflictSequenceNumber(st, r, x) ==
    IF \E i \in DOMAIN st : st[i].checkpoint_sequence_number = r.checkpoint_sequence_number
    THEN st
    ELSE Append(st, Row(r, x))

\* one row of the VALUES list under ON CONFLICT (tx_digest) DO NOTHING
InsertOnConflictDoNothing(st, r, x) ==
    IF Conflicts(st, r) THEN st ELSE Append(st, Row(r, x))

\* the whole statement, run alone
RECURSIVE BulkInsert(_, _, _)
BulkInsert(st, b, x) ==
    IF b = <<>> THEN st
    ELSE BulkInsert(InsertOnConflictDoNothing(st, b[1], x), Tail(b), x)

\* how a statement ends and what commit() returns
Pending == [tag |-> "Pending"]
Ok(n)   == [tag |-> "Ok", inserted |-> n]
Err     == [tag |-> "Err"]
None    == [tag |-> "None"]

\* a statement that failed: why, whether the store has kept the rows the
\* statement had written, and how many it had written
Failed(cause, kept, written) ==
    [tag |-> "Err", cause |-> cause, kept |-> kept, written |-> written]

\* a faulty variant without the conflict clause: the key constraint rejects the row
OnConflictRaise(st, r) == IF Conflicts(st, r) THEN "UniqueViolation" ELSE "Insert"

\* what the conflict clause makes of a row: on_conflict(tx_digest).do_nothing()
OnConflict(st, r) == IF Conflicts(st, r) THEN "DoNothing" ELSE "Insert"

\* a faulty variant that swallows the error of the statement
CommitReturnSwallow(executed) ==
    IF executed.tag = "Err" THEN Ok(0) ELSE Ok(executed.inserted)

\* a faulty variant that takes a statement that inserted nothing for a failure
CommitReturnZeroIsError(executed) ==
    IF executed.tag = "Err" \/ executed.inserted = 0 THEN Err ELSE Ok(executed.inserted)

\* `.await?` followed by Ok(inserted)
CommitReturn(executed) ==
    IF executed.tag = "Err" THEN Err ELSE Ok(executed.inserted)

\* a row with the same key written by a statement that is still running
Blocked(st, r, x) ==
    \E i \in DOMAIN st :
        /\ st[i].tx_digest = r.tx_digest
        /\ st[i].xid # x
        /\ calls[st[i].xid].result.tag = "Pending"

\* a faulty variant that undoes nothing
RollBackNothing(st, x) == st

\* the table without the rows statement x wrote
RollBack(st, x) == LET Kept(row) == row.xid # x IN SelectSeq(st, Kept)

----------------------------------------------------------------------------
(* State machine *)

InitCommon ==
    /\ store = <<>>
    /\ batch = [c \in Committers |-> <<>>]
    /\ processed = <<>>
    /\ cur = [c \in Committers |-> 0]
    /\ pos = [c \in Committers |-> 0]
    /\ inserted = [c \in Committers |-> 0]
    /\ calls = <<>>
    /\ ret = [c \in Committers |-> None]
    /\ acked = {}
    /\ journal = <<>>
    /\ work = [w \in Workers |-> <<>>]

\* one batch owner, fed every checkpoint
Init ==
    /\ InitCommon
    /\ owners = {1}
    /\ feed = SeqNums

\* two batch owners committing on separate connections, fed the checkpoints
\* of one sequence number
InitConcurrent ==
    /\ InitCommon
    /\ owners = Committers
    /\ feed = {1}

\* the pipeline hands a checkpoint to process()
ProcessCheckpoint(checkpoint) ==
    /\ checkpoint.checkpoint_summary.sequence_number \in feed
    /\ Len(calls) < MaxCalls
    /\ processed = <<>>
    /\ processed' = <<[checkpoint |-> checkpoint, values |-> Process(checkpoint)]>>
    /\ UNCHANGED <<store, batch, cur, pos, inserted, calls, ret, acked, journal, owners, feed, work>>

\* the pipeline hands the processed values to batch() of owner c
Accumulate(c) ==
    /\ c \in owners
    /\ Len(calls) < MaxCalls
    /\ processed # <<>>
    /\ cur[c] = 0
    /\ Len(batch[c]) + Len(processed[1].values) <= MaxBatch
    /\ batch' = [batch EXCEPT ![c] = Batch(batch[c], processed[1].values)]
    /\ processed' = <<>>
    /\ UNCHANGED <<store, cur, pos, inserted, calls, ret, acked, journal, owners, feed, work>>

\* after a successful commit the pipeline starts the owner on a fresh batch
FreshBatch(c) ==
    /\ c \in owners
    /\ Len(calls) < MaxCalls
    /\ cur[c] = 0
    /\ ret[c].tag = "Ok"
    /\ batch[c] # <<>>
    /\ batch' = [batch EXCEPT ![c] = <<>>]
    /\ UNCHANGED <<store, processed, cur, pos, inserted, calls, ret, acked, journal, owners, feed, work>>

\* commit() is called and issues its statement
BeginCommit(c) ==
    /\ c \in owners
    /\ cur[c] = 0
    /\ Len(calls) < MaxCalls
    /\ calls' = Append(calls, [who |-> c, executed |-> Pending, result |-> Pending])
    /\ cur' = [cur EXCEPT ![c] = Len(calls) + 1]
    /\ pos' = [pos EXCEPT ![c] = 0]
    /\ inserted' = [inserted EXCEPT ![c] = 0]
    /\ journal' = Append(journal, [batch |-> batch[c], pre |-> Table(store)])
    /\ UNCHANGED <<store, batch, processed, ret, acked, owners, feed, work>>

\* the call of owner c ends: its statement ended as `executed`
Return(c, executed) ==
    LET result == CommitReturn(executed)
    IN  /\ calls' = [calls EXCEPT ![cur[c]].executed = executed,
                                  ![cur[c]].result = result]
        /\ ret' = [ret EXCEPT ![c] = result]
        /\ acked' = IF result.tag = "Ok" THEN acked \cup DigestsOf(batch[c]) ELSE acked
        /\ cur' = [cur EXCEPT ![c] = 0]
        /\ pos' = [pos EXCEPT ![c] = 0]
        /\ inserted' = [inserted EXCEPT ![c] = 0]

\* the statement handles the next row of its VALUES list
InsertRow(c) ==
    /\ cur[c] # 0
    /\ pos[c] < Len(batch[c])
    /\ LET r == batch[c][pos[c] + 1]
           after == InsertOnConflictDoNothing(store, r, cur[c])
       IN  /\ ~Blocked(store, r, cur[c])
           /\ IF OnConflict(store, r) = "UniqueViolation"
              THEN \* the row is rejected and the statement is undone
                   /\ store' = RollBack(store, cur[c])
                   /\ Return(c, Failed("unique_violation", FALSE, inserted[c]))
                   /\ UNCHANGED <<batch, processed, journal, owners, feed, work>>
              ELSE /\ store' = after
                   /\ inserted' = [inserted EXCEPT
                                      ![c] = inserted[c] + (Len(after) - Len(store))]
                   /\ pos' = [pos EXCEPT ![c] = pos[c] + 1]
                   /\ UNCHANGED <<batch, processed, cur, calls, ret, acked, journal,
                                  owners, feed, work>>

\* the statement completes and commit() returns
CommitOk(c) ==
    /\ cur[c] # 0
    /\ pos[c] = Len(batch[c])
    /\ Return(c, Ok(inserted[c]))
    /\ UNCHANGED <<store, batch, processed, journal, owners, feed, work>>

\* the statement fails (connection, serialization, deadlock victim, ...):
\* the store either undoes what the statement wrote or has kept it
CommitErr(c, kept) ==
    /\ cur[c] # 0
    /\ store' = IF kept THEN store ELSE RollBack(store, cur[c])
    /\ Return(c, Failed("io", kept, inserted[c]))
    /\ UNCHANGED <<batch, processed, journal, owners, feed, work>>

Next ==
    \/ \E checkpoint \in CheckpointData : ProcessCheckpoint(checkpoint)
    \/ \E c \in Committers : Accumulate(c)
    \/ \E c \in Committers : FreshBatch(c)
    \/ \E c \in Committers : BeginCommit(c)
    \/ \E c \in Committers : InsertRow(c)
    \/ \E c \in Committers : CommitOk(c)
    \/ \E c \in Committers, kept \in BOOLEAN : CommitErr(c, kept)

Spec == Init /\ [][Next]_vars

----------------------------------------------------------------------------
(* process, one step at a time, called by several workers at once *)

\* no batch owner: only process() runs
InitProcess ==
    /\ InitCommon
    /\ owners = {}
    /\ feed = SeqNums

\* a faulty variant that keeps the sequence number in a place the workers share
EmitShared(w) ==
    LET local == work[w][1]
        others == {v \in Workers \ {w} : work[v] # <<>>}
        tx == local.checkpoint.transactions[Len(local.digests) + 1]
    IN  StoredTransactionDigest(
            ToString(tx.transaction.digest),
            IF others = {} THEN local.checkpoint_seq
            ELSE work[CHOOSE v \in others : TRUE][1].checkpoint_seq)

\* the record the map closure makes of the next transaction of worker w
Emit(w) ==
    LET local == work[w][1]
        tx == local.checkpoint.transactions[Len(local.digests) + 1]
    IN  StoredTransactionDigest(ToString(tx.transaction.digest), local.checkpoint_seq)

\* worker w calls process(checkpoint): checkpoint_seq is computed
Invoke(w, checkpoint) ==
    /\ checkpoint.checkpoint_summary.sequence_number \in feed
    /\ work[w] = <<>>
    /\ work' = [work EXCEPT ![w] =
            <<[checkpoint |-> checkpoint,
               checkpoint_seq |-> AsI64(checkpoint.checkpoint_summary.sequence_number),
               digests |-> <<>>,
               returned |-> FALSE]>>]
    /\ UNCHANGED <<store, batch, processed, cur, pos, inserted, calls, ret, acked,
                   journal, owners, feed>>

\* the iterator of worker w maps the next transaction
MapTransaction(w) ==
    /\ work[w] # <<>>
    /\ ~work[w][1].returned
    /\ Len(work[w][1].digests) < Len(work[w][1].checkpoint.transactions)
    /\ work' = [work EXCEPT ![w][1].digests = Append(@, Emit(w))]
    /\ UNCHANGED <<store, batch, processed, cur, pos, inserted, calls, ret, acked,
                   journal, owners, feed>>

\* the records are collected and process() returns Ok(digests)
ReturnDigests(w) ==
    /\ work[w] # <<>>
    /\ ~work[w][1].returned
    /\ Len(work[w][1].digests) = Len(work[w][1].checkpoint.transactions)
    /\ work' = [work EXCEPT ![w][1].returned = TRUE]
    /\ UNCHANGED <<store, batch, processed, cur, pos, inserted, calls, ret, acked,
                   journal, owners, feed>>

\* the pipeline takes the records; the worker is free for the next checkpoint
TakeDigests(w) ==
    /\ work[w] # <<>>
    /\ work[w][1].returned
    /\ work' = [work EXCEPT ![w] = <<>>]
    /\ UNCHANGED <<store, batch, processed, cur, pos, inserted, calls, ret, acked,
                   journal, owners, feed>>

NextProcess ==
    \/ \E w \in Workers, checkpoint \in CheckpointData : Invoke(w, checkpoint)
    \/ \E w \in Workers : MapTransaction(w)
    \/ \E w \in Workers : ReturnDigests(w)
    \/ \E w \in Workers : TakeDigests(w)

SpecProcess == InitProcess /\ [][NextProcess]_vars

SpecConcurrent == InitConcurrent /\ [][Next]_vars

----------------------------------------------------------------------------
(* Properties *)

Range(f) == {f[i] : i \in DOMAIN f}

RowsOf(st, d) == {i \in DOMAIN st : st[i].tx_digest = d}

RowsBy(st, x) == {i \in DOMAIN st : st[i].xid = x}

UniqueDigests(st) == \A i, j \in DOMAIN st : st[i].tx_digest = st[j].tx_digest => i = j

ReturnedOk(x) == x \in DOMAIN calls /\ calls[x].result.tag = "Ok"

\* two commit calls made one after the other, both successful, and nothing else
TwoCommits == Len(calls) = 2 /\ ReturnedOk(1) /\ ReturnedOk(2) /\ journal[1].pre = <<>>

\* C1: the table never holds two rows with the same tx_digest, and holds exactly
\* one row for every tx_digest of a batch whose commit returned Ok.
C1_OneRowPerDigest ==
    /\ UniqueDigests(store)
    /\ \A d \in acked : Cardinality(RowsOf(store, d)) = 1

\* a checkpoint was redelivered: the same non-empty batch was committed twice
C1_Witness ==
    /\ TwoCommits
    /\ journal[1].batch = journal[2].batch
    /\ Len(journal[1].batch) = 2
    /\ acked = DigestsOf(journal[1].batch)

\* C2: the same batch committed twice in succession against the empty table:
\* one row per unique tx_digest of the batch, the first commit returns the
\* number of unique digests and the second returns 0.
C2_SameBatchTwice ==
    (TwoCommits /\ journal[1].batch = journal[2].batch) =>
        LET unique == DigestsOf(journal[1].batch)
        IN  /\ DigestsOf(store) = unique
            /\ Len(store) = Cardinality(unique)
            /\ calls[1].result.inserted = Cardinality(unique)
            /\ calls[2].result.inserted = 0

\* the example of the specification: [a1, b2] of one checkpoint, twice
C2_Witness ==
    /\ TwoCommits
    /\ journal[1].batch = journal[2].batch
    /\ DigestsOf(journal[1].batch) = {"a1", "b2"}
    /\ calls[1].result.inserted = 2
    /\ Len(store) = 2

\* a row that has come into the table with this step
NewRow(row) == row \in Range(store') /\ row \notin Range(store)

\* a row whose statement has ended and left it in the table
Durable(row) == calls[row.xid].result.tag # "Pending"

\* C3: a row that is in the table stays there unchanged whatever is committed
\* later, and a row enters the table only for a digest the table did not hold,
\* carrying the sequence number of the batch record the running commit wrote.
C3_RowsNeverChange ==
    [][/\ \A i \in DOMAIN store :
            Durable(store[i]) => (i \in DOMAIN store' /\ store'[i] = store[i])
       /\ \A row \in Range(store') :
            NewRow(row) =>
                /\ ~Conflicts(store, row)
                /\ \E c \in Committers :
                      cur[c] = row.xid /\ Record(row) \in Range(batch[c])]_vars

\* a later successful commit carried a stored digest with another sequence number
C3_Witness ==
    /\ TwoCommits
    /\ \E i \in DOMAIN store, k \in DOMAIN journal[2].batch :
          /\ store[i].xid = 1
          /\ journal[2].batch[k].tx_digest = store[i].tx_digest
          /\ journal[2].batch[k].checkpoint_sequence_number
                # store[i].checkpoint_sequence_number

\* C4: batches A and B committed one after the other against the empty table
\* leave |A u B| rows, and the two returned counts add up to |A u B|.
C4_MergeSafety ==
    TwoCommits =>
        LET union == DigestsOf(journal[1].batch) \cup DigestsOf(journal[2].batch)
        IN  /\ Len(store) = Cardinality(union)
            /\ calls[1].result.inserted + calls[2].result.inserted = Cardinality(union)

\* the two batches overlap in part
C4_Witness ==
    /\ TwoCommits
    /\ LET A == DigestsOf(journal[1].batch)
           B == DigestsOf(journal[2].batch)
       IN  A \cap B # {} /\ A \ B # {} /\ B \ A # {}
    /\ Len(store) = 3

\* C5: process returns one record per transaction of the checkpoint, the i-th
\* with the digest of the i-th transaction.
C5_ProcessTotalOrdered ==
    processed # <<>> =>
        LET checkpoint == processed[1].checkpoint
            values == processed[1].values
        IN  /\ Len(values) = Len(checkpoint.transactions)
            /\ \A i \in 1..Len(checkpoint.transactions) :
                  values[i].tx_digest =
                      ToString(checkpoint.transactions[i].transaction.digest)

\* a checkpoint that lists the same transaction twice yields two records
C5_Witness ==
    /\ processed # <<>>
    /\ Len(processed[1].checkpoint.transactions) = 2
    /\ processed[1].checkpoint.transactions[1] = processed[1].checkpoint.transactions[2]
    /\ Len(processed[1].values) = 2

\* C6: every record process returns carries the numeric value of the
\* checkpoint's sequence number.
C6_SequenceNumberPreserved ==
    processed # <<>> =>
        \A i \in DOMAIN processed[1].values :
            processed[1].values[i].checkpoint_sequence_number =
                processed[1].checkpoint.checkpoint_summary.sequence_number

\* C7: after two batches are committed the table holds the union of their
\* digests, as it would had the batches been committed in the other order.
C7_OrderIndependent ==
    TwoCommits =>
        LET A == journal[1].batch
            B == journal[2].batch
        IN  /\ DigestsOf(store) = DigestsOf(A) \cup DigestsOf(B)
            /\ DigestsOf(store) = DigestsOf(BulkInsert(BulkInsert(<<>>, B, 1), A, 2))

\* the example of the specification: [a1, b2] and [b2, c3]
C7_Witness ==
    /\ TwoCommits
    /\ {DigestsOf(journal[1].batch), DigestsOf(journal[2].batch)}
          = {{"a1", "b2"}, {"b2", "c3"}}
    /\ DigestsOf(store) = {"a1", "b2", "c3"}

\* C8: a commit whose statement fails returns Err, leaves its batch as it was
\* and is over: it writes nothing more.
C8_FailureSurfaced ==
    [][/\ \A c \in Committers :
            (cur[c] # 0 /\ calls'[cur[c]].executed.tag = "Err") =>
                /\ calls'[cur[c]].result.tag = "Err"
                /\ ret'[c].tag = "Err"
                /\ batch'[c] = batch[c]
                /\ cur'[c] = 0
       /\ \A x \in DOMAIN calls :
            calls[x].executed.tag = "Err" =>
                /\ calls'[x] = calls[x]
                /\ calls[x].result.tag = "Err"
                /\ RowsBy(store', x) = RowsBy(store, x)]_vars

\* a statement failed after it had handled a row of a batch
C8_Witness ==
    \E x \in DOMAIN calls :
        /\ calls[x].executed.tag = "Err"
        /\ calls[x].result.tag = "Err"
        /\ RowsBy(store, x) # {}
        /\ batch[calls[x].who] = journal[x].batch

\* the table when call y returned (one owner)
Post(y) == IF y < Len(journal) THEN journal[y + 1].pre ELSE Table(store)

\* calls x..y commit the same batch, all fail but the last
RetryChain(x, y) ==
    /\ x < y
    /\ y \in DOMAIN calls
    /\ \A z \in x..y : journal[z].batch = journal[x].batch
    /\ \A z \in x..(y - 1) : calls[z].result.tag = "Err"
    /\ calls[y].result.tag = "Ok"

\* C9: a batch re-committed after failed commits that kept none, some or all
\* of its rows: the successful commit adds only missing rows after the ones
\* present, returns the number that were missing, and leaves the table as one
\* successful commit of the batch would have.
C9_RetrySafe ==
    \A x, y \in DOMAIN calls :
        RetryChain(x, y) =>
            LET B == journal[x].batch
                before == journal[y].pre
                after == Post(y)
            IN  /\ after = Table(BulkInsert(journal[x].pre, B, y))
                /\ SubSeq(after, 1, Len(before)) = before
                /\ \A i \in (Len(before) + 1)..Len(after) :
                      after[i].tx_digest \notin DigestsOf(before)
                /\ calls[y].result.inserted
                      = Cardinality(DigestsOf(B) \ DigestsOf(before))

\* the failed commit kept one of the two rows of its batch
C9_Witness ==
    /\ RetryChain(1, 2)
    /\ Len(journal[2].pre) = 1
    /\ calls[2].result.inserted = 1
    /\ Len(store) = 2

\* the sum of the counts calls 1..n returned
RECURSIVE ReturnedCounts(_)
ReturnedCounts(n) ==
    IF n = 0 THEN 0 ELSE ReturnedCounts(n - 1) + calls[n].result.inserted

C11_ConflictIsNoError ==
    \A x \in DOMAIN calls :
        /\ calls[x].executed.tag = "Err" => calls[x].executed.cause # "unique_violation"
        /\ calls[x].executed.tag = "Ok" => calls[x].result.tag = "Ok"
        /\ SubSeq(Table(store), 1, Len(journal[x].pre)) = journal[x].pre

\* every digest of the second batch was stored, with another sequence number
C11_Witness ==
    /\ TwoCommits
    /\ Len(journal[2].batch) = 2
    /\ DigestsOf(journal[2].batch) \subseteq DigestsOf(journal[2].pre)
    /\ \A k \in DOMAIN journal[2].batch : journal[2].batch[k] \notin Range(Table(store))
    /\ calls[2].result = Ok(0)

\* C12: batch() appends the new records in order after the records the batch
\* holds, drops none of them, and changes nothing but that batch.
C12_AccumulateAppends ==
    [][(processed # <<>> /\ processed' = <<>>) =>
          /\ \E c \in owners :
                LET values == processed[1].values
                    held == Len(batch[c])
                IN  /\ Len(batch'[c]) = held + Len(values)
                    /\ \A i \in 1..held : batch'[c][i] = batch[c][i]
                    /\ \A i \in 1..Len(values) : batch'[c][held + i] = values[i]
                    /\ \A o \in Committers \ {c} : batch'[o] = batch[o]
          /\ UNCHANGED <<store, cur, pos, inserted, calls, ret, acked, journal>>]_vars

\* a batch holding one digest twice, from two checkpoints
C12_Witness ==
    /\ processed = <<>>
    /\ Len(batch[1]) = 2
    /\ batch[1][1].tx_digest = batch[1][2].tx_digest
    /\ batch[1][1].checkpoint_sequence_number # batch[1][2].checkpoint_sequence_number

\* C14 as claimed: a commit that returned an error has added no row.
C14_AllOrNothing ==
    \A x \in DOMAIN calls : calls[x].result.tag = "Err" => RowsBy(store, x) = {}

\* C14: commit returns a count only for a statement that handled the whole
\* batch, and an error otherwise; after an error the table holds none of the
\* call's rows when the store undid the statement, and the rows the statement
\* had written when the store kept them.
C14_NoPartialAcknowledgement ==
    \A x \in DOMAIN calls :
        /\ calls[x].result.tag = "Ok" =>
              /\ calls[x].executed.tag = "Ok"
              /\ DigestsOf(journal[x].batch) \subseteq DigestsOf(store)
              /\ calls[x].result.inserted = Cardinality(RowsBy(store, x))
        /\ calls[x].result.tag = "Err" =>
              /\ calls[x].executed.tag = "Err"
              /\ Cardinality(RowsBy(store, x))
                    = IF calls[x].executed.kept THEN calls[x].executed.written ELSE 0

\* a statement failed after writing a row and the store undid it
C14_Witness ==
    \E x \in DOMAIN calls :
        /\ calls[x].result.tag = "Err"
        /\ ~calls[x].executed.kept
        /\ calls[x].executed.written >= 1
        /\ RowsBy(store, x) = {}

\* C15: the count of a successful commit is the growth of the table, which is
\* the number of distinct digests of the batch the table did not hold.
C15_CountIsRowsAdded ==
    \A x \in DOMAIN calls :
        ReturnedOk(x) =>
            /\ calls[x].result.inserted = Len(Post(x)) - Len(journal[x].pre)
            /\ calls[x].result.inserted
                  = Cardinality(DigestsOf(journal[x].batch) \ DigestsOf(journal[x].pre))

\* a batch with one digest stored and one not: the count is 1
C15_Witness ==
    /\ TwoCommits
    /\ DigestsOf(journal[2].batch) \cap DigestsOf(journal[2].pre) # {}
    /\ Cardinality(DigestsOf(journal[2].batch)) = 2
    /\ calls[2].result.inserted = 1

\* the first record of batch b with digest d
FirstOf(b, d) ==
    b[CHOOSE i \in DOMAIN b :
        b[i].tx_digest = d /\ \A j \in 1..(i - 1) : b[j].tx_digest # d]

\* C16: after a successful commit every digest of the batch has one row; when
\* the digest was not stored before, the row is the batch's first record with
\* that digest; the count is at most the number of distinct digests.
C16_FirstOccurrenceWins ==
    \A x \in DOMAIN calls :
        ReturnedOk(x) =>
            LET B == journal[x].batch
            IN  /\ \A d \in DigestsOf(B) :
                      /\ Cardinality(RowsOf(store, d)) = 1
                      /\ d \notin DigestsOf(journal[x].pre) =>
                            \A i \in RowsOf(store, d) :
                                store[i] = Row(FirstOf(B, d), x)
                /\ calls[x].result.inserted <= Cardinality(DigestsOf(B))

\* one digest twice in a batch, with two sequence numbers
C16_Witness ==
    \E x \in DOMAIN calls :
        /\ ReturnedOk(x)
        /\ Len(journal[x].batch) = 2
        /\ journal[x].batch[1].tx_digest = journal[x].batch[2].tx_digest
        /\ journal[x].batch[1].checkpoint_sequence_number
              # journal[x].batch[2].checkpoint_sequence_number
        /\ journal[x].pre = <<>>
        /\ calls[x].result.inserted = 1

\* C17: a commit of an empty batch leaves the table as it was, returns Ok(0)
\* when its statement ran, and fails only when the store could not be reached.
C17_EmptyBatch ==
    \A x \in DOMAIN calls :
        (journal[x].batch = <<>> /\ calls[x].result.tag # "Pending") =>
            /\ Post(x) = journal[x].pre
            /\ RowsBy(store, x) = {}
            /\ calls[x].executed.tag = "Ok" => calls[x].result = Ok(0)
            /\ calls[x].executed.tag = "Err" => calls[x].executed.cause = "io"

\* an empty batch committed against a table that holds rows
C17_Witness ==
    /\ TwoCommits
    /\ journal[2].batch = <<>>
    /\ journal[2].pre # <<>>
    /\ calls[2].result = Ok(0)
    /\ Table(store) = journal[2].pre

\* C13: whatever the other workers are doing, the records a worker has made
\* are those a call of process on its checkpoint alone makes, all of them once
\* it has returned; and process leaves the batches, the table and the calls
\* as they were.
C13_ProcessStateless ==
    /\ \A w \in Workers :
          work[w] # <<>> =>
              LET local == work[w][1]
                  alone == Process(local.checkpoint)
              IN  /\ local.digests = SubSeq(alone, 1, Len(local.digests))
                  /\ local.returned => local.digests = alone
    /\ store = <<>> /\ calls = <<>> /\ journal = <<>> /\ processed = <<>>
    /\ \A c \in Committers : batch[c] = <<>> /\ cur[c] = 0

\* one worker has returned two records while the other is half way through a
\* checkpoint with another sequence number
C13_Witness ==
    /\ work[1] # <<>> /\ work[2] # <<>>
    /\ work[1][1].returned /\ Len(work[1][1].digests) = 2
    /\ ~work[2][1].returned
    /\ Len(work[2][1].digests) = 1 /\ Len(work[2][1].checkpoint.transactions) = 2
    /\ work[1][1].checkpoint_seq # work[2][1].checkpoint_seq

====
